---- MODULE Spec2Model ----
(***************************************************************************)
(* Model of src/F200/HardwareIO.cpp: the monitor command protocol of the   *)
(* F200 camera (IVCAMHardwareIOInternal).                                  *)
(*                                                                         *)
(*   SpecExec  threads calling ExecuteUSBCommand on one Facade, sharing    *)
(*             usbMutex and the two bulk endpoints.                        *)
(*   Spec      the life of one Facade: constructor (open, claim, fetch,    *)
(*             decode), the operations of a Ready Facade, the destructor.  *)
(*   SpecFramer  PrepareUSBCommand applied to arguments drawn from bounded *)
(*             sets.                                                       *)
(*                                                                         *)
(* Memory is modelled byte by byte.  A byte is 0..255; U marks a byte (or  *)
(* a word) that holds no defined value (never written).  Multi-byte       *)
(* values are little-endian, as on the platforms the file builds for.     *)
(***************************************************************************)
EXTENDS Integers, Sequences, FiniteSets, TLC

VARIABLES
    usbMutex,   \* std::timed_mutex usbMutex: Free, or the thread that holds it
    call,       \* per thread: the frame of its ExecuteUSBCommand call
    returned,   \* the frame of the last call that ended, as its caller finds it
    ncalls,     \* calls of ExecuteUSBCommand made so far
    lastXfer,   \* the last libusb_bulk_transfer issued (observer of the bus)
    facade,     \* the IVCAMHardwareIOInternal object and its constructor's frame
    framer      \* the frame of a PrepareUSBCommand call: its arguments, its results

vars == <<usbMutex, call, returned, ncalls, lastXfer, facade, framer>>

-----------------------------------------------------------------------------
(* Bounds of the model *)

\* threads that call ExecuteUSBCommand concurrently (SpecExec)
NumThreads == 2
\* calls of ExecuteUSBCommand those threads make in all
MaxCalls == 3
\* capacity of the largest destination buffer a SpecExec caller passes
MaxCap == 6
\* longest of the short payloads handed to PrepareUSBCommand (SpecFramer)
MaxPayload == 2

-----------------------------------------------------------------------------
(* Program constants *)

IVCAM_MONITOR_MAGIC_NUMBER == 52651
IVCAM_MIN_SUPPORTED_VERSION == 13
IVCAM_MONITOR_MAX_BUFFER_SIZE == 1024
IVCAM_MONITOR_HEADER_SIZE == 24
NUM_OF_CALIBRATION_PARAMS == 100
HW_MONITOR_BUFFER_SIZE == 1000
SIZE_OF_CALIB_PARAM_BYTES == 512
SIZE_OF_CALIB_HEADER_BYTES == 4
GetCalibrationTable == 61

\* sizeof(uint32_t), sizeof(uint16_t)
SizeofU32 == 4
SizeofU16 == 2

-----------------------------------------------------------------------------
(* Values *)

\* a byte nobody wrote
U == -1
\* usbMutex held by no thread
Free == -1
\* the thread that constructs the Facade
CtorThread == 0
Callers == 1..NumThreads
Threads == {CtorThread} \cup Callers

\* libusb_bulk_transfer's results: LIBUSB_SUCCESS, LIBUSB_ERROR_IO,
\* LIBUSB_ERROR_TIMEOUT (a timeout may still have moved some bytes)
LibusbRet == {0, -1, -7}
\* `ret` of a transfer that was not issued
NotIssued == 1
\* what a call that ended by throw "returns"
Thrown == 2

\* A buffer is modelled by the bytes written to it so far: a function from
\* the addresses 0..n-1 up to the highest one written.  The byte at address
\* p; a byte nobody wrote holds no defined value
At(mem, p) == IF p \in DOMAIN mem THEN mem[p] ELSE U

\* a buffer nobody wrote to
Unwritten == [i \in {} |-> U]

\* number of bytes of a buffer's written part
Len0(mem) == Cardinality(DOMAIN mem)

Max(a, b) == IF a > b THEN a ELSE b

\* *(uint32_t *)p: the word as its four bytes in memory order (a word's
\* value does not fit TLC's integers; its bytes do)
LE32(mem, p) == <<At(mem, p), At(mem, p + 1), At(mem, p + 2), At(mem, p + 3)>>
UWord == <<U, U, U, U>>

\* memcpy(dst, src + from, n)
Memcpy(dst, src, from, n) ==
    [i \in 0..(Max(Len0(dst), n) - 1) |->
        IF i < n THEN At(src, from + i) ELSE dst[i]]

-----------------------------------------------------------------------------
(* ExecuteUSBCommand (lines 122-184), one frame per calling thread *)

\* the frame of a thread that is not inside ExecuteUSBCommand
IdleCall ==
    [pc |-> "idle",
     outSize |-> 0, inPtr |-> FALSE, inSize |-> 0, in |-> Unwritten, op |-> UWord,
     ret |-> NotIssued, outXfer |-> U, rv |-> NotIssued,
     \* observers: what the call did
     cap |-> 0, acquired |-> 0, unlocks |-> 0, nOut |-> 0, nIn |-> 0,
     outRet |-> NotIssued, inRet |-> NotIssued, resp |-> Unwritten]

\* a caller enters ExecuteUSBCommand(out, outSize, op, in, inSize)
EnterCall(outSize, inPtr, inSize) ==
    [IdleCall EXCEPT !.pc = "lock",
                     !.outSize = outSize, !.inPtr = inPtr, !.inSize = inSize,
                     !.cap = inSize]

\* line 133 testing for one error code only: if (ret == -1)
OutFailed_OnlyIO(ret) == ret = -1

\* line 133: if (ret < 0)
OutFailed(ret) == ret < 0

\* line 143: if (in && inSize)
ExpectsResponse(c) == c.inPtr /\ c.inSize # 0

\* line 151 testing for an empty read only: if (outXfer <= 0)
ShortRead_EmptyOnly(outXfer) == outXfer <= 0

\* line 151: if (outXfer < (int)sizeof(uint32_t))
ShortRead(outXfer) == outXfer < SizeofU32

\* line 165 with the capacity test lost
TooLarge_Never(outXfer, inSize) == FALSE

\* line 165: if (outXfer > (int)inSize)
TooLarge(outXfer, inSize) == outXfer > inSize

\* line 172 after line 161's outXfer -= sizeof(uint32_t)
ReportedSize_Payload(outXfer) == outXfer - SizeofU32

\* line 172: inSize = outXfer
ReportedSize(outXfer) == outXfer

\* usbMutex.unlock() by the frame c
Unlocked(c) == [c EXCEPT !.unlocks = c.unlocks + 1]

\* lines 151-178: what the call does with the IN transfer's result
\* (ret, outXfer bytes in buf) and how it returns
AfterIn(c, ret, outXfer, buf) ==
    LET got == [c EXCEPT !.ret = ret, !.outXfer = outXfer, !.inRet = ret,
                         !.nIn = c.nIn + 1, !.resp = buf, !.pc = "done"]
    IN  IF ShortRead(outXfer)
        THEN [Unlocked(got) EXCEPT !.rv = -1]
        ELSE LET withOp == [got EXCEPT !.op = LE32(buf, 0)]
             IN  IF TooLarge(outXfer, c.inSize)
                 THEN [Unlocked(withOp) EXCEPT !.rv = -1]
                 ELSE [Unlocked(withOp) EXCEPT
                          !.inSize = ReportedSize(outXfer),
                          !.in = Memcpy(c.in, buf, 0, ReportedSize(outXfer)),
                          !.rv = ret]

\* the OUT transfer issued again after a failure
AfterOut_Retry(c, ret, outXfer) ==
    LET got == [c EXCEPT !.ret = ret, !.outXfer = outXfer, !.outRet = ret,
                         !.nOut = c.nOut + 1]
    IN  IF OutFailed(ret)
        THEN [got EXCEPT !.pc = "out"]
        ELSE IF ExpectsResponse(c)
             THEN [got EXCEPT !.pc = "in"]
             ELSE [Unlocked(got) EXCEPT !.rv = ret, !.pc = "done"]

\* lines 131-143, 177-178: what the call does with the OUT transfer's result
AfterOut(c, ret, outXfer) ==
    LET got == [c EXCEPT !.ret = ret, !.outXfer = outXfer, !.outRet = ret,
                         !.nOut = c.nOut + 1]
    IN  IF OutFailed(ret)
        THEN [got EXCEPT !.rv = ret, !.pc = "done"]
        ELSE IF ExpectsResponse(c)
             THEN [got EXCEPT !.pc = "in"]
             ELSE [Unlocked(got) EXCEPT !.rv = ret, !.pc = "done"]

\* the bytes the device answers with: n bytes, byte i is (seed + i) mod 256
Response(n, seed) == [i \in 0..(n - 1) |-> (seed + i) % 256]

\* the call of thread t goes on as frame c, or ends with it: the caller
\* has the frame's results and the thread is out of ExecuteUSBCommand
Step(t, c) ==
    /\ call' = [call EXCEPT ![t] = IF c.pc = "done" THEN IdleCall ELSE c]
    /\ returned' = IF c.pc = "done" THEN c ELSE returned
    /\ usbMutex' = IF c.unlocks > call[t].unlocks THEN Free ELSE usbMutex

\* line 129 with try_lock_for's result ignored: the call goes on whether or
\* not the mutex was free
Exec_TryLock_Unchecked(t) ==
    /\ call[t].pc = "lock"
    /\ usbMutex' = t
    /\ call' = [call EXCEPT ![t].pc = "out", ![t].acquired = call[t].acquired + 1]
    /\ UNCHANGED <<returned, ncalls, lastXfer, facade, framer>>

\* line 129: try_lock_for succeeds
Exec_TryLock(t) ==
    /\ call[t].pc = "lock"
    /\ usbMutex = Free
    /\ usbMutex' = t
    /\ call' = [call EXCEPT ![t].pc = "out", ![t].acquired = call[t].acquired + 1]
    /\ UNCHANGED <<returned, ncalls, lastXfer, facade, framer>>

\* lines 129, 180-183: the mutex stays held for IVCAM_MONITOR_MUTEX_TIMEOUT
\* and try_lock_for gives up (also when the holder is the caller itself:
\* a timed_mutex is not recursive, the wait just runs out); the call throws
Exec_LockTimeout(t) ==
    /\ call[t].pc = "lock"
    /\ usbMutex # Free
    /\ Step(t, [call[t] EXCEPT !.pc = "done", !.rv = Thrown])
    /\ UNCHANGED <<ncalls, lastXfer, facade, framer>>

\* who is between its OUT transfer and the end of its IN transfer
MidExchange == {u \in Threads : call[u].pc = "in"}

\* libusb_bulk_transfer issued by thread t on endpoint ep, as the bus sees it
Issue(t, ep) ==
    lastXfer' = [thread |-> t, ep |-> ep, holder |-> usbMutex,
                 others |-> MidExchange \ {t}]

\* lines 131-143: the OUT bulk transfer and what follows it
Exec_Out(t) ==
    /\ call[t].pc = "out"
    /\ \E ret \in LibusbRet :
         Step(t, AfterOut(call[t], ret, IF ret = 0 THEN call[t].outSize ELSE 0))
    /\ Issue(t, "OUT")
    /\ UNCHANGED <<ncalls, facade, framer>>

\* lines 149-178: the IN bulk transfer of thread t delivering buf with result
\* ret, and what follows it
InTransfer(t, ret, buf) ==
    /\ Step(t, AfterIn(call[t], ret, Len0(buf), buf))
    /\ Issue(t, "IN")
    /\ UNCHANGED <<ncalls, facade, framer>>

\* response lengths a SpecExec device gives: none, short, status only,
\* fitting and too large for the largest caller
XferLens == {0, 3, 4, 5, MaxCap, MaxCap + 1}
Seeds == {17, 250}
Caps == {0, 2, MaxCap}

\* lines 149-178 for a caller thread
Exec_In(t) ==
    /\ call[t].pc = "in"
    /\ \E ret \in LibusbRet, n \in XferLens, seed \in Seeds :
         InTransfer(t, ret, Response(n, seed))

\* a thread calls ExecuteUSBCommand with a framed request and its own buffer
Call(t) ==
    /\ call[t].pc = "idle"
    /\ ncalls < MaxCalls
    /\ ncalls' = ncalls + 1
    /\ \E inPtr \in BOOLEAN, inSize \in Caps :
         call' = [call EXCEPT ![t] =
                    EnterCall(IVCAM_MONITOR_HEADER_SIZE, inPtr, inSize)]
    /\ UNCHANGED <<usbMutex, returned, lastXfer, facade, framer>>

-----------------------------------------------------------------------------
(* PrepareUSBCommand (lines 88-120) *)

\* a 32-bit and a 16-bit value as bytes in memory order
U32Bytes_BigEndian(v) == <<(v \div 16777216) % 256, (v \div 65536) % 256, (v \div 256) % 256, v % 256>>
U32Bytes(v) == <<v % 256, (v \div 256) % 256, (v \div 65536) % 256, (v \div 16777216) % 256>>
U16Bytes(v) == <<v % 256, (v \div 256) % 256>>

\* mem with the bytes bs stored from address p on
Store(mem, p, bs) ==
    [i \in 0..(Max(Len0(mem), p + Len(bs)) - 1) |->
        IF i >= p /\ i < p + Len(bs) THEN bs[i - p + 1] ELSE At(mem, i)]

\* line 91: the buffer cannot hold the header
TooSmall_Never(requestSize) == requestSize < 0
TooSmall(requestSize) == requestSize < IVCAM_MONITOR_HEADER_SIZE

\* line 115: the 16-bit length field, the total without the length and the
\* magic number
LengthField_Total(index) == index % 65536
LengthField(index) == (index - SizeofU32) % 65536

\* PrepareUSBCommand(request, requestSize, op, p1, p2, p3, p4, data, dataLength):
\* the value returned, requestSize and the memory at request afterwards.
\* requestSize is never compared with anything but the header size, so a
\* payload longer than the room left is stored at request + 24 all the same:
\* the picture of the memory at request grows past the capacity.
PrepareUSBCommand(request, requestSize, op, p1, p2, p3, p4, data, dataLength) ==
    IF TooSmall(requestSize)
    THEN [rv |-> 0, requestSize |-> requestSize, request |-> request]
    ELSE LET index == IVCAM_MONITOR_HEADER_SIZE + dataLength
             r1 == Store(request, SizeofU16, U16Bytes(IVCAM_MONITOR_MAGIC_NUMBER))
             r2 == Store(r1, 4, U32Bytes(op))
             r3 == Store(r2, 8, U32Bytes(p1))
             r4 == Store(r3, 12, U32Bytes(p2))
             r5 == Store(r4, 16, U32Bytes(p3))
             r6 == Store(r5, 20, U32Bytes(p4))
             r7 == IF dataLength # 0
                   THEN Store(r6, IVCAM_MONITOR_HEADER_SIZE, SubSeq(data, 1, dataLength))
                   ELSE r6
             r8 == Store(r7, 0, U16Bytes(LengthField(index)))
         IN  [rv |-> index, requestSize |-> index, request |-> r8]

\* no call of PrepareUSBCommand
NoFrame ==
    [pc |-> "none", cap |-> 0, request0 |-> Unwritten, request |-> Unwritten,
     requestSize |-> 0, op |-> 0, p |-> <<0, 0, 0, 0>>, data |-> <<>>,
     dataLength |-> 0, rv |-> U, written |-> 0]

\* capacities of the request buffer: none, one short of the header, the
\* header, room for the short payloads, the largest transfer, one more
FramerCaps == {0, IVCAM_MONITOR_HEADER_SIZE - 1, IVCAM_MONITOR_HEADER_SIZE,
               IVCAM_MONITOR_HEADER_SIZE + MaxPayload,
               IVCAM_MONITOR_MAX_BUFFER_SIZE, IVCAM_MONITOR_MAX_BUFFER_SIZE + 1}
\* payload lengths: the short ones, the one that fills the largest transfer,
\* the first that does not fit it
FramerLens == (0..MaxPayload)
              \cup {IVCAM_MONITOR_MAX_BUFFER_SIZE - IVCAM_MONITOR_HEADER_SIZE,
                    IVCAM_MONITOR_MAX_BUFFER_SIZE - IVCAM_MONITOR_HEADER_SIZE + 1}
\* opcodes and parameter words (uint32_t values below 2^31)
FramerOps == {GetCalibrationTable, 2147483647}
FramerParams == {<<0, 0, 0, 0>>, <<1, 2, 3, 4>>, <<16909060, 255, 65536, 2147483647>>}
\* the caller's buffer before the call: nothing written, or stale bytes
StaleByte == 238
FramerRequests(cap) == {Unwritten, [i \in 0..(cap - 1) |-> StaleByte]}
\* the payload: dataLength bytes, byte i is (seed + i) mod 256
Payload(n, seed) == [i \in 1..n |-> (seed + i) % 256]

\* a caller about to call PrepareUSBCommand
FramerArgs ==
    UNION { { [NoFrame EXCEPT !.pc = "args", !.cap = cap, !.request0 = req,
                              !.request = req, !.requestSize = cap, !.op = op,
                              !.p = p, !.data = Payload(n, seed), !.dataLength = n] :
                req \in FramerRequests(cap), op \in FramerOps,
                p \in FramerParams, n \in FramerLens, seed \in Seeds } :
            cap \in FramerCaps }

\* lines 88-120: the call.  written is the number of bytes from request on
\* that the call stored into (0 if it stored nothing).
Frame ==
    /\ framer.pc = "args"
    /\ LET f == framer
           r == PrepareUSBCommand(f.request0, f.requestSize, f.op, f.p[1], f.p[2],
                                  f.p[3], f.p[4], f.data, f.dataLength)
           w == PrepareUSBCommand(Unwritten, f.requestSize, f.op, f.p[1], f.p[2],
                                  f.p[3], f.p[4], f.data, f.dataLength)
       IN  framer' = [f EXCEPT !.pc = "framed", !.request = r.request,
                               !.requestSize = r.requestSize, !.rv = r.rv,
                               !.written = Len0(w.request)]
    /\ UNCHANGED <<usbMutex, call, returned, ncalls, lastXfer, facade>>

-----------------------------------------------------------------------------
(* The calibration decoder (lines 59-72, 231-285) *)

\* sizeof(CameraCalibrationParameters): 26 floats
SizeofCameraCalibrationParameters == 104
\* offsetof(CameraCalibrationParametersVersion, CalibrationParameters):
\* the struct's leading integer
OffsetofCalibrationParameters == 4
\* sizeof(IVCAMTesterData): its 4-byte header, then the thermal data
SizeofIVCAMTesterData == 64

SizeofCameraCalibrationParametersVersion ==
    OffsetofCalibrationParameters + SizeofCameraCalibrationParameters

\* lines 59-65
RECURSIVE bcdloop(_, _, _, _)
bcdloop(buf, bufsize, i, r) ==
    IF i < bufsize THEN bcdloop(buf, bufsize, i + 1, r * 10 + buf[i + 1]) ELSE r

bcdtoint(buf, bufsize) == bcdloop(buf, bufsize, 0, 0)

\* lines 67-72 without the tag comparison of line 70
getVersionOfCalibration_NoTag(validation, version) == bcdtoint(version, 2)

\* lines 67-72
getVersionOfCalibration(validation, version) ==
    IF validation # <<20, 10>> THEN 0 ELSE bcdtoint(version, 2)

\* line 244 and line 258: which layout a version selects
IsLegacy(ver) == ver = IVCAM_MIN_SUPPORTED_VERSION
IsVersioned(ver) == ver > IVCAM_MIN_SUPPORTED_VERSION

\* line 253 copying from params instead of params+1
LegacyFirstFloat_Zero == 1 - 1

\* line 253: the float of the region the legacy parameters start at (params+1)
LegacyFirstFloat == 1

\* n bytes of raw from address p on
Bytes(raw, p, n) == [i \in 0..(n - 1) |-> At(raw, p + i)]

\* the addresses p..p+n-1
Range(p, n) == p..(p + n - 1)

\* line 262: size = (sizeof(CameraCalibrationParametersVersion) > len) ? len : sizeof(...)
VersionedCopySize(len) ==
    IF SizeofCameraCalibrationParametersVersion > len
    THEN len ELSE SizeofCameraCalibrationParametersVersion

\* lines 280-281: the raw offset the tester data is copied from
\* (rawCalibData was advanced by 4 at line 260)
TesterDataOffset == 4 + SIZE_OF_CALIB_PARAM_BYTES + SIZE_OF_CALIB_HEADER_BYTES

\* ProjectionCalibrate(rawCalibData, len, calprms) with the calibration
\* collaborator's call log: calprms and the log afterwards, the version read,
\* and the offsets of the raw buffer it (or the collaborator, through the
\* pointer handed to it) reads.  hdr is bufParams[0..3] as the function reads it.
ProjectionCalibrate(rawCalibData, len, calprms, log, hdr) ==
    LET bufParams == 4
        ver == getVersionOfCalibration(SubSeq(hdr, 1, 2), SubSeq(hdr, 3, 4))
    IN  IF IsLegacy(ver)
        THEN [calprms |-> Bytes(rawCalibData, bufParams + 4 * LegacyFirstFloat,
                                SizeofCameraCalibrationParameters),
              log |-> Append(log, [fn |-> "buildParameters", layout |-> "floats",
                                   at |-> bufParams, n |-> NUM_OF_CALIBRATION_PARAMS]),
              ver |-> ver,
              reads |-> Range(bufParams, 4)
                        \cup Range(bufParams, 4 * NUM_OF_CALIBRATION_PARAMS)
                        \cup Range(bufParams + 4 * LegacyFirstFloat,
                                   SizeofCameraCalibrationParameters),
              testerReads |-> Range(bufParams, SIZE_OF_CALIB_HEADER_BYTES)]
        ELSE IF IsVersioned(ver)
        THEN LET size == VersionedCopySize(len)
                 \* CalibrationData: zeroed, then size - sizeof(int) bytes of
                 \* the region stored behind its leading integer
                 CalibrationData ==
                     [i \in 0..(SizeofCameraCalibrationParametersVersion - 1) |->
                        IF i >= 4 /\ i - 4 < size - 4
                        THEN At(rawCalibData, bufParams + i - 4) ELSE 0]
                 params == [i \in 0..(SizeofCameraCalibrationParameters - 1) |->
                              CalibrationData[OffsetofCalibrationParameters + i]]
                 TesterData ==
                     [i \in 0..(SizeofIVCAMTesterData - 1) |->
                        IF i < SIZE_OF_CALIB_HEADER_BYTES
                        THEN At(rawCalibData, bufParams + i)
                        ELSE At(rawCalibData, TesterDataOffset
                                              + i - SIZE_OF_CALIB_HEADER_BYTES)]
             IN  [calprms |-> params,
                  log |-> log \o <<[fn |-> "buildParameters", layout |-> "struct",
                                    params |-> params],
                                   [fn |-> "InitializeThermalData",
                                    tester |-> TesterData]>>,
                  ver |-> ver,
                  reads |-> Range(bufParams, 4)
                            \cup Range(bufParams, size - 4)
                            \cup Range(TesterDataOffset,
                                       SizeofIVCAMTesterData - SIZE_OF_CALIB_HEADER_BYTES),
                  testerReads |-> Range(bufParams, SIZE_OF_CALIB_HEADER_BYTES)
                                  \cup Range(TesterDataOffset,
                                       SizeofIVCAMTesterData - SIZE_OF_CALIB_HEADER_BYTES)]
        ELSE [calprms |-> calprms, log |-> log, ver |-> ver,
              reads |-> Range(bufParams, 4), testerReads |-> {}]

-----------------------------------------------------------------------------
(* The Facade: constructor (lines 385-407), destructor (409-412) and the
   operations of a constructed object (414-428) *)

\* operations on a Ready Facade the model follows
MaxOps == 2

NoXfer == [thread |-> Free, ep |-> "none", holder |-> Free, others |-> {}]

\* before the constructor runs.  state: where the constructor (then the
\* object) is; "Failed": the constructor threw
NoFacade ==
    [state |-> "Uninitialized",
     usbDeviceHandle |-> "null",
     calibratedParameters |-> Unwritten,
     parameters |-> Unwritten,
     \* observers
     ctx |-> "none", opens |-> 0, claimCalls |-> 0,
     claims |-> 0, releases |-> 0, log |-> <<>>, hdr |-> UWord, ver |-> U,
     reads |-> {}, testerReads |-> {},
     stores |-> 0, ops |-> 0, lastOp |-> "none"]

\* line 387
Ctor_Begin ==
    /\ facade.state = "Uninitialized"
    /\ \E ctx \in {"null", "ctx"} :
         facade' = [facade EXCEPT !.ctx = ctx,
                                  !.state = IF ctx = "null" THEN "Failed" ELSE "Opening"]
    /\ UNCHANGED <<usbMutex, call, returned, ncalls, lastXfer, framer>>

\* lines 390-394: a NULL handle throws
AfterOpen_Unchecked(handle) == IF handle = "none" THEN "Failed" ELSE "Claiming"
AfterOpen(handle) == IF handle = "null" THEN "Failed" ELSE "Claiming"

\* lines 389-394: libusb_open_device_with_vid_pid
Ctor_Open ==
    /\ facade.state = "Opening"
    /\ \E handle \in {"null", "dev"} :
         facade' = [facade EXCEPT !.usbDeviceHandle = handle,
                                  !.opens = facade.opens + 1,
                                  !.state = AfterOpen(handle)]
    /\ UNCHANGED <<usbMutex, call, returned, ncalls, lastXfer, framer>>

\* line 227: the test GetCalibrationRawData throws on
FetchFailed(prepared, executed) == ~(prepared > 0 /\ executed # -1)

\* lines 396-401, 223-227: libusb_claim_interface, then GetCalibrationRawData
\* frames the request and enters ExecuteUSBCommand with the 1000-byte buffer
Ctor_Claim ==
    /\ facade.state = "Claiming"
    /\ \E status \in {0, -6} :
         IF status < 0
         THEN /\ facade' = [facade EXCEPT !.claimCalls = facade.claimCalls + 1,
                                           !.state = "Failed"]
              /\ UNCHANGED <<call, ncalls>>
         ELSE LET req == PrepareUSBCommand(Unwritten,
                             IVCAM_MONITOR_HEADER_SIZE, GetCalibrationTable,
                             0, 0, 0, 0, <<>>, 0)
              IN  IF req.rv > 0
                  THEN /\ facade' = [facade EXCEPT !.claimCalls = facade.claimCalls + 1,
                                                   !.claims = facade.claims + 1,
                                                   !.state = "CalibrationLoading"]
                       /\ call' = [call EXCEPT ![CtorThread] =
                             EnterCall(req.requestSize, TRUE, HW_MONITOR_BUFFER_SIZE)]
                       /\ ncalls' = ncalls + 1
                  ELSE /\ facade' = [facade EXCEPT !.claimCalls = facade.claimCalls + 1,
                                                   !.claims = facade.claims + 1,
                                                   !.state = "Failed"]
                       /\ UNCHANGED <<call, ncalls>>
    /\ UNCHANGED <<usbMutex, returned, lastXfer, framer>>

\* the calibration table as the device sends it: n bytes, the status word,
\* the tag, the version, then byte i is (seed + i) mod 256
Blob(n, tag, version, seed) ==
    [i \in 0..(n - 1) |->
        IF i = 0 THEN GetCalibrationTable
        ELSE IF i < 4 THEN 0
        ELSE IF i < 6 THEN tag[i - 3]
        ELSE IF i < 8 THEN version[i - 5]
        ELSE (seed + i) % 256]

\* lengths the device answers with: short, status only, cut inside the
\* header, header only, a legacy table, a versioned table with tester data,
\* a full buffer, more than the buffer, a full scratch buffer
BlobLens == {0, 3, 4, 6, 8, 4 + 4 * NUM_OF_CALIBRATION_PARAMS,
             4 + SIZE_OF_CALIB_HEADER_BYTES + SIZE_OF_CALIB_PARAM_BYTES + SizeofIVCAMTesterData,
             HW_MONITOR_BUFFER_SIZE, HW_MONITOR_BUFFER_SIZE + 1,
             IVCAM_MONITOR_MAX_BUFFER_SIZE}
Tags == {<<20, 10>>, <<0, 0>>, <<20, 11>>}
Versions == {<<0, 0>>, <<1, 2>>, <<1, 3>>, <<0, 13>>, <<1, 4>>, <<0, 255>>}

\* lines 149-178 for the constructor's call
Ctor_In ==
    /\ call[CtorThread].pc = "in"
    /\ \E ret \in LibusbRet, n \in BlobLens, tag \in Tags, version \in Versions :
         InTransfer(CtorThread, ret, Blob(n, tag, version, 17))

\* what the four bytes of a header nobody wrote may hold
StackHdrs == {<<0, 0, 0, 0>>, <<20, 10, 1, 3>>, <<20, 10, 1, 4>>}

\* lines 227-228, 403-406: GetCalibrationRawData returns or throws; the
\* constructor decodes the table and stores the parameters
Ctor_Decode ==
    /\ facade.state = "CalibrationLoading"
    /\ call[CtorThread].pc = "idle"
    /\ IF returned.rv = Thrown \/ FetchFailed(IVCAM_MONITOR_HEADER_SIZE, returned.rv)
       THEN facade' = [facade EXCEPT !.state = "Failed"]
       ELSE \E stack \in StackHdrs :
              LET raw == returned.in
                  hdr == [k \in 1..4 |-> IF At(raw, 3 + k) = U THEN stack[k] ELSE raw[3 + k]]
                  d == ProjectionCalibrate(raw, returned.inSize,
                                           facade.calibratedParameters, facade.log, hdr)
              IN  facade' = [facade EXCEPT !.calibratedParameters = d.calprms,
                                           !.parameters = d.calprms,
                                           !.log = d.log, !.hdr = hdr, !.ver = d.ver,
                                           !.reads = d.reads,
                                           !.testerReads = d.testerReads,
                                           !.stores = facade.stores + 1,
                                           !.state = "Ready"]
    /\ UNCHANGED <<usbMutex, call, returned, ncalls, lastXfer, framer>>

\* an operation that starts the calibration over
Operation_Reload(name) ==
    /\ facade.state = "Ready"
    /\ facade.ops < MaxOps
    /\ facade' = [facade EXCEPT !.ops = facade.ops + 1, !.lastOp = name,
                                !.state = "CalibrationLoading"]
    /\ UNCHANGED <<usbMutex, call, returned, ncalls, lastXfer, framer>>

\* lines 414-428: the operations of a constructed object
Operation(name) ==
    /\ facade.state = "Ready"
    /\ facade.ops < MaxOps
    /\ facade' = [facade EXCEPT !.ops = facade.ops + 1, !.lastOp = name]
    /\ UNCHANGED <<usbMutex, call, returned, ncalls, lastXfer, framer>>

GetParameters == Operation("GetParameters")
StartTempCompensationLoop == Operation("StartTempCompensationLoop")
StopTempCompensationLoop == Operation("StopTempCompensationLoop")

\* lines 409-412: the destructor of a constructed object
Dtor ==
    /\ facade.state = "Ready"
    /\ facade' = [facade EXCEPT !.releases = facade.releases + 1, !.state = "Closed"]
    /\ UNCHANGED <<usbMutex, call, returned, ncalls, lastXfer, framer>>

Init ==
    /\ usbMutex = Free
    /\ call = [t \in Threads |-> IdleCall]
    /\ returned = IdleCall
    /\ ncalls = 0
    /\ lastXfer = NoXfer
    /\ facade = NoFacade
    /\ framer = NoFrame

Next ==
    \/ Ctor_Begin
    \/ Ctor_Open
    \/ Ctor_Claim
    \/ Exec_TryLock(CtorThread)
    \/ Exec_Out(CtorThread)
    \/ Ctor_In
    \/ Ctor_Decode
    \/ GetParameters
    \/ StartTempCompensationLoop
    \/ StopTempCompensationLoop
    \/ Dtor

Spec == Init /\ [][Next]_vars

-----------------------------------------------------------------------------
(* Threads calling ExecuteUSBCommand on one Facade *)

InitExec ==
    /\ usbMutex = Free
    /\ call = [t \in Threads |-> IdleCall]
    /\ returned = IdleCall
    /\ ncalls = 0
    /\ lastXfer = NoXfer
    /\ facade = NoFacade
    /\ framer = NoFrame

NextExec ==
    \E t \in Callers :
        \/ Call(t)
        \/ Exec_TryLock(t)
        \/ Exec_LockTimeout(t)
        \/ Exec_Out(t)
        \/ Exec_In(t)

SpecExec == InitExec /\ [][NextExec]_vars

-----------------------------------------------------------------------------
(* PrepareUSBCommand on its own *)

InitFramer ==
    /\ usbMutex = Free
    /\ call = [t \in Threads |-> IdleCall]
    /\ returned = IdleCall
    /\ ncalls = 0
    /\ lastXfer = NoXfer
    /\ facade = NoFacade
    /\ framer \in FramerArgs

NextFramer == Frame

SpecFramer == InitFramer /\ [][NextFramer]_vars

-----------------------------------------------------------------------------
(* Claims about ExecuteUSBCommand, checked under SpecExec *)

\* number of bytes the IN transfer of frame c delivered
Delivered(c) == Len0(c.resp)

\* the frame ended after an IN transfer
HadIn(c) == c.nIn = 1

\* C1: every call of ExecuteUSBCommand that acquired usbMutex has released
\* it exactly once when it returns, on every exit branch; no thread that is
\* outside the function (or still waiting for the lock) holds the mutex.
C1_ReleasedOnceOnEveryExit ==
    /\ returned.acquired = 1 => returned.unlocks = 1
    /\ \A t \in Threads : call[t].pc \in {"idle", "lock"} => usbMutex # t

\* C2: at most one exchange is in flight: no thread issues a bulk transfer
\* while another thread is between its OUT transfer and the end of its IN
\* transfer, and every bulk transfer is issued by the holder of usbMutex.
C2_OneExchangeInFlight ==
    /\ Cardinality(MidExchange) <= 1
    /\ \A t \in Threads : call[t].pc \in {"out", "in"} => usbMutex = t
    /\ lastXfer.thread # Free =>
          /\ lastXfer.holder = lastXfer.thread
          /\ lastXfer.others = {}

\* a thread is between its OUT and its IN transfer while another thread,
\* which wants the bus too, waits for the mutex
C2_Witness ==
    \E t, u \in Callers :
        /\ t # u
        /\ call[t].pc = "in"
        /\ lastXfer.thread = t
        /\ call[u].pc = "lock"

\* C5 as stated: on a successful exchange of n >= 4 bytes the status word is
\* the first 4 bytes, the n-4 payload bytes (and nothing else) are copied to
\* the caller's buffer, and n-4 is reported.
C5_PayloadOnly ==
    (HadIn(returned) /\ returned.rv = 0) =>
        LET n == Delivered(returned)
        IN  /\ n >= 4
            /\ returned.op = LE32(returned.resp, 0)
            /\ returned.inSize = n - 4
            /\ returned.in = [i \in 0..(n - 5) |-> returned.resp[4 + i]]

\* C5 (amended): on a successful exchange of n >= 4 bytes the status word is
\* the first 4 bytes, all n bytes of the response (status word included, and
\* nothing else) are copied to the caller's buffer, and n is reported; a
\* response of exactly 4 bytes into a buffer of at least 4 bytes succeeds
\* and reports 4.
C5_WholeResponse ==
    /\ (HadIn(returned) /\ returned.rv = 0) =>
          LET n == Delivered(returned)
          IN  /\ n >= 4
              /\ returned.op = LE32(returned.resp, 0)
              /\ returned.inSize = n
              /\ returned.in = returned.resp
    /\ (HadIn(returned) /\ returned.inRet = 0 /\ Delivered(returned) = 4
          /\ returned.cap >= 4) =>
          returned.rv = 0 /\ returned.inSize = 4

\* a successful exchange with a payload that leaves room in the buffer
C5_Witness ==
    /\ HadIn(returned)
    /\ returned.rv = 0
    /\ Delivered(returned) = 5
    /\ returned.cap > 5

\* C6: the IN transfer is issued only after an OUT transfer of the same call
\* that returned a non-negative result.
C6_NoReadAfterFailedWrite ==
    /\ \A t \in Threads :
          call[t].pc = "in" => call[t].nOut = 1 /\ call[t].outRet >= 0
    /\ returned.nIn > 0 => returned.nOut = 1 /\ returned.outRet >= 0

\* a call that expected a response, whose OUT transfer failed with an error
\* other than -1, has returned
C6_Witness ==
    /\ returned.nOut = 1
    /\ returned.outRet = -7
    /\ returned.inPtr /\ returned.cap > 0
    /\ returned.nIn = 0

\* C7: when the IN transfer delivers fewer than 4 bytes the call returns -1
\* and the caller's status word, buffer and size are as they were.
C7_ShortReadFails ==
    (HadIn(returned) /\ Delivered(returned) < 4) =>
        /\ returned.rv = -1
        /\ returned.op = UWord
        /\ returned.in = Unwritten
        /\ returned.inSize = returned.cap

\* a 3-byte response to a call whose IN transfer reported success
C7_Witness ==
    /\ HadIn(returned)
    /\ Delivered(returned) = 3
    /\ returned.inRet = 0

\* C8: when the payload of the response (what follows the status word) is
\* larger than the caller's capacity the call returns -1 and the caller's
\* buffer and size are as they were.
C8_TooLargeCopiesNothing ==
    (HadIn(returned) /\ Delivered(returned) >= 4
        /\ Delivered(returned) - 4 > returned.cap) =>
        /\ returned.rv = -1
        /\ returned.in = Unwritten
        /\ returned.inSize = returned.cap

\* a response whose payload alone does not fit, from a transfer that
\* reported success
C8_Witness ==
    /\ HadIn(returned)
    /\ returned.inRet = 0
    /\ Delivered(returned) - 4 > returned.cap

-----------------------------------------------------------------------------
(* Claims about the constructor and the decoder, checked under Spec *)

\* the constructor returned normally
Constructed == facade.state \in {"Ready", "Closed"}

\* the tag and the version of the header ProjectionCalibrate read
TagValid == SubSeq(facade.hdr, 1, 2) = <<20, 10>>
BcdVersion == 10 * facade.hdr[3] + facade.hdr[4]

\* the exchange of frame c did not succeed
TransportFailed(c) ==
    \/ c.outRet < 0
    \/ c.inRet < 0
    \/ HadIn(c) /\ (Delivered(c) < 4 \/ Delivered(c) > c.cap)

\* C3: GetCalibrationRawData throws whenever the exchange did not succeed:
\* a negative result of the OUT or the IN transfer, a response under 4 bytes
\* or one larger than the buffer never lets the constructor go on.
C3_AnyFailureIsFatal ==
    Constructed => ~TransportFailed(returned)

\* C4: the constructor returns normally (the Facade is Ready) only if the
\* table it fetched had a valid tag and a version >= 13 and the decoder
\* wrote the parameter struct.
C4_ReadyOnlyIfDecoded ==
    (Constructed /\ HadIn(returned) /\ ~TransportFailed(returned)) =>
        /\ TagValid
        /\ BcdVersion >= IVCAM_MIN_SUPPORTED_VERSION
        /\ facade.parameters # Unwritten

\* C9: given a table whose tag is not {0x14, 0x0A}, or whose version is
\* below 13, ProjectionCalibrate leaves the output struct as it was and
\* calls neither buildParameters nor InitializeThermalData.
C9_RejectedTableNoOutput ==
    (Constructed /\ (~TagValid \/ BcdVersion < IVCAM_MIN_SUPPORTED_VERSION)) =>
        /\ facade.calibratedParameters = Unwritten
        /\ facade.log = <<>>

\* a received table with a wrong tag and the version bytes of version 13
C9_Witness ==
    /\ facade.state = "Ready"
    /\ returned.inSize = HW_MONITOR_BUFFER_SIZE
    /\ HadIn(returned)
    /\ facade.hdr = <<0, 0, 1, 3>>

\* C10: given a table with tag {0x14, 0x0A} and version 13, the output struct
\* holds the bytes of the region from float 1 on (raw offset 8), the only
\* call on the collaborator is buildParameters with the 100 floats of the
\* region, and InitializeThermalData is not called.
C10_LegacyTable ==
    (Constructed /\ TagValid /\ BcdVersion = IVCAM_MIN_SUPPORTED_VERSION) =>
        /\ facade.calibratedParameters =
              [i \in 0..(SizeofCameraCalibrationParameters - 1) |->
                  At(returned.in, 8 + i)]
        /\ facade.log = <<[fn |-> "buildParameters", layout |-> "floats",
                           at |-> 4, n |-> 100]>>
        /\ \A k \in 1..Len(facade.log) : facade.log[k].fn # "InitializeThermalData"

\* a complete legacy table (4 + 400 bytes) with version bytes {1, 3}
C10_Witness ==
    /\ facade.state = "Ready"
    /\ HadIn(returned)
    /\ returned.inSize = 4 + 4 * NUM_OF_CALIBRATION_PARAMS
    /\ facade.hdr = <<20, 10, 1, 3>>

\* InitializeThermalData was handed the tester data
ThermalHandedOver ==
    \E k \in 1..Len(facade.log) : facade.log[k].fn = "InitializeThermalData"

\* the length a table must have for its tester data to lie inside it
TesterDataEnd ==
    TesterDataOffset + SizeofIVCAMTesterData - SIZE_OF_CALIB_HEADER_BYTES

\* C11: given a received table with tag {0x14, 0x0A} and a version above 13,
\* ProjectionCalibrate writes the output struct, and it hands tester data to
\* InitializeThermalData only when the received length reaches the end of
\* the tester data at raw offset 4 + 512 + 4; no byte of the tester data is
\* taken from an offset at or past the received length.
C11_ThermalOnlyFromReceived ==
    (Constructed /\ HadIn(returned) /\ ~TransportFailed(returned)
       /\ returned.inSize >= 8 /\ TagValid
       /\ BcdVersion > IVCAM_MIN_SUPPORTED_VERSION) =>
        /\ facade.calibratedParameters # Unwritten
        /\ ThermalHandedOver => returned.inSize >= TesterDataEnd
        /\ \A o \in facade.testerReads : o < returned.inSize

-----------------------------------------------------------------------------
(* Claims about PrepareUSBCommand (SpecFramer) *)

\* the little-endian 16-bit and 32-bit values at address p; U for a 32-bit
\* value of 2^31 or more
Word16(mem, p) == At(mem, p) + 256 * At(mem, p + 1)
Word32(mem, p) ==
    IF At(mem, p + 3) >= 128 THEN U
    ELSE At(mem, p) + 256 * At(mem, p + 1) + 65536 * At(mem, p + 2)
         + 16777216 * At(mem, p + 3)

Framed == framer.pc = "framed"

\* C12: a request framed with a capacity of at least 24 bytes and a payload
\* of L bytes has the total 24 + L as the value returned, the 16-bit field
\* at offset 0 holds the total minus 4, the 16-bit field at offset 2 holds
\* 0xCDAB, the total is at least 24 and the size argument is the total.
C12_FramedLength ==
    (Framed /\ framer.cap >= IVCAM_MONITOR_HEADER_SIZE) =>
        /\ framer.rv = IVCAM_MONITOR_HEADER_SIZE + framer.dataLength
        /\ framer.rv >= IVCAM_MONITOR_HEADER_SIZE
        /\ framer.requestSize = framer.rv
        /\ Word16(framer.request, 0) = framer.rv - 4
        /\ Word16(framer.request, 2) = IVCAM_MONITOR_MAGIC_NUMBER

\* a request with the longest of the short payloads in a buffer it fills
C12_Witness ==
    /\ Framed
    /\ framer.cap = IVCAM_MONITOR_HEADER_SIZE + MaxPayload
    /\ framer.dataLength = MaxPayload
    /\ framer.request0 # Unwritten

\* the envelope read back by its layout: length at 0, magic at 2, opcode at
\* 4, the parameters at 8, 12, 16, 20, the payload from 24 on
Decoded(request) ==
    [magic |-> Word16(request, 2),
     op |-> Word32(request, 4),
     p |-> <<Word32(request, 8), Word32(request, 12),
             Word32(request, 16), Word32(request, 20)>>,
     data |-> [i \in 1..(Word16(request, 0) + 4 - IVCAM_MONITOR_HEADER_SIZE) |->
                  At(request, IVCAM_MONITOR_HEADER_SIZE + i - 1)]]

\* C13: framing an opcode, four parameters and a payload of L bytes and
\* reading the request back by the envelope layout gives the opcode, the
\* four parameters and the L payload bytes that went in.
C13_RoundTrip ==
    (Framed /\ framer.cap >= IVCAM_MONITOR_HEADER_SIZE) =>
        Decoded(framer.request) =
            [magic |-> IVCAM_MONITOR_MAGIC_NUMBER, op |-> framer.op,
             p |-> framer.p, data |-> framer.data]

\* a request whose words have four different bytes, with a payload
C13_Witness ==
    /\ Framed
    /\ framer.cap = IVCAM_MONITOR_MAX_BUFFER_SIZE
    /\ framer.p[1] = 16909060
    /\ framer.dataLength = MaxPayload
    /\ framer.rv > 0

\* C17: with a capacity below 24 bytes PrepareUSBCommand returns 0 and
\* stores nothing: the buffer and the size argument are as they were.
C17_TooSmallWritesNothing ==
    (Framed /\ framer.cap < IVCAM_MONITOR_HEADER_SIZE) =>
        /\ framer.rv = 0
        /\ framer.written = 0
        /\ framer.request = framer.request0
        /\ framer.requestSize = framer.cap

\* a buffer of 23 stale bytes and a payload to frame
C17_Witness ==
    /\ Framed
    /\ framer.cap = IVCAM_MONITOR_HEADER_SIZE - 1
    /\ framer.request0 # Unwritten
    /\ framer.dataLength > 0
    /\ framer.rv = 0

\* C18: for every capacity C and payload length L, PrepareUSBCommand either
\* returns 0 or stores into at most min(C, 1024) bytes of the buffer.
C18_WithinCapacity ==
    Framed =>
        \/ framer.rv = 0
        \/ /\ framer.written <= framer.cap
           /\ framer.written <= IVCAM_MONITOR_MAX_BUFFER_SIZE

-----------------------------------------------------------------------------
(* Claims about the life of the Facade (Spec), continued *)

\* no bulk transfer was issued and ExecuteUSBCommand was not called
NoBulkTransfer == lastXfer = NoXfer /\ ncalls = 0 /\ returned = IdleCall

\* C14: the constructor checks the context, opens the device, claims the
\* interface, fetches the table and decodes it, in this order, and a
\* failure aborts it before the next step: with a null context no USB call
\* is made; if the open fails the interface is never claimed; if the claim
\* fails no bulk transfer is issued; in each case the Facade is never Ready.
C14_AbortBeforeNextStep ==
    /\ facade.ctx = "null" =>
          /\ facade.state = "Failed"
          /\ facade.opens = 0 /\ facade.claimCalls = 0 /\ NoBulkTransfer
    /\ (facade.opens > 0 /\ facade.usbDeviceHandle = "null") =>
          /\ facade.state = "Failed"
          /\ facade.claimCalls = 0 /\ NoBulkTransfer
    /\ (facade.claimCalls > 0 /\ facade.claims = 0) =>
          /\ facade.state = "Failed"
          /\ NoBulkTransfer
    /\ facade.opens > 0 => facade.ctx = "ctx"
    /\ facade.claimCalls > 0 => facade.opens = 1 /\ facade.usbDeviceHandle = "dev"
    /\ ~NoBulkTransfer => facade.claimCalls = 1 /\ facade.claims = 1
    /\ facade.stores > 0 => ncalls = 1 /\ call[CtorThread].pc = "idle"

\* the claim of the interface failed
C14_Witness ==
    /\ facade.state = "Failed"
    /\ facade.usbDeviceHandle = "dev"
    /\ facade.claimCalls = 1
    /\ facade.claims = 0

\* C16: once the Facade is Ready no step issues a calibration exchange or a
\* bulk transfer, re-enters CalibrationLoading or changes the stored
\* parameters: GetParameters, StartTempCompensationLoop and
\* StopTempCompensationLoop leave them as the constructor wrote them, the
\* parameters are stored exactly once, and exactly one GetCalibrationTable
\* exchange is issued in the life of a constructed Facade.
C16_FrozenOnceReady ==
    [][ /\ facade.state = "Ready" =>
              /\ facade'.state \in {"Ready", "Closed"}
              /\ facade'.parameters = facade.parameters
              /\ facade'.calibratedParameters = facade.calibratedParameters
              /\ facade'.stores = facade.stores
              /\ ncalls' = ncalls /\ call' = call /\ returned' = returned
              /\ lastXfer' = lastXfer
        /\ facade'.stores <= 1 /\ ncalls' <= 1
        /\ facade'.state \in {"Ready", "Closed"} =>
              facade'.stores = 1 /\ ncalls' = 1
      ]_vars

\* a Ready Facade with decoded parameters after MaxOps operations, the last
\* of them StartTempCompensationLoop
C16_Witness ==
    /\ facade.state = "Ready"
    /\ facade.parameters # Unwritten
    /\ facade.ops = MaxOps
    /\ facade.lastOp = "StartTempCompensationLoop"

\* C19: every successful claim of the monitor interface is matched by
\* exactly one release: a Facade that was destroyed, or whose construction
\* was aborted, has released the interface as often as it claimed it, and
\* the interface is never released without having been claimed.
C19_ClaimMatchedByRelease ==
    /\ facade.releases <= facade.claims
    /\ facade.state \in {"Closed", "Failed"} => facade.releases = facade.claims

\* C20: ProjectionCalibrate reads only bytes that were received: every
\* offset of the raw buffer it reads (tag and version at 4..7, the window of
\* 100 floats and the parameter struct on the version 13 path, the versioned
\* struct and the tester data at 4 + 516 on the path above 13) is below len.
C20_ReadsWithinReceived ==
    (facade.stores = 1 /\ HadIn(returned) /\ ~TransportFailed(returned)) =>
        \A o \in facade.reads : o < returned.inSize

-----------------------------------------------------------------------------
(* Claims about ExecuteUSBCommand (SpecExec), continued *)

\* C15: a call of ExecuteUSBCommand issues at most one OUT and at most one
\* IN bulk transfer; a call whose lock attempt timed out issued no bulk
\* transfer, ended with the runtime error, and neither acquired nor
\* unlocked the mutex.
C15_NoRetry ==
    /\ \A t \in Threads : call[t].nOut <= 1 /\ call[t].nIn <= 1
    /\ returned.nOut <= 1 /\ returned.nIn <= 1
    /\ returned.nIn = 1 => returned.nOut = 1
    /\ returned.rv = Thrown =>
          /\ returned.nOut = 0 /\ returned.nIn = 0
          /\ returned.acquired = 0 /\ returned.unlocks = 0
          /\ returned.resp = Unwritten
    /\ returned.acquired = 0 => returned.rv \in {NotIssued, Thrown}

\* a call timed out on the lock while another thread is waiting for the
\* response to its request
C15_Witness ==
    /\ returned.rv = Thrown
    /\ \E t \in Callers : call[t].pc = "in" /\ usbMutex = t

====
